---- MODULE Spec2Model ----
(***************************************************************************)
(* Model of UrlscanClient (src/src/urlscanClient.ts): one client instance, *)
(* a bounded number of calls of scan / getScan / search that may be in     *)
(* flight at the same time, the transport (fetch and response.json) as a   *)
(* nondeterministic environment, and console.error as the diagnostic       *)
(* channel; requests[c] and console[c] are the fetch calls and the         *)
(* console.error calls made on behalf of call c, in order.                 *)
(*                                                                         *)
(* JavaScript values are records [t, s, n]: t is the type tag, s the       *)
(* string payload (a string's characters, an Error's message, the text of  *)
(* a boolean, the identity of an opaque object), n the numeric payload.    *)
(* Objects passed as options are sequences of entries [k, v] in property   *)
(* order, wrapped in [present, entries] so that an omitted argument is     *)
(* distinguishable from an empty object.                                   *)
(***************************************************************************)
EXTENDS Integers, Sequences, FiniteSets, TLC

VARIABLES client, ctor, calls, transport, requests, console

vars == <<client, ctor, calls, transport, requests, console>>

\* Number of calls that may be issued (and be in flight together).
MaxCalls == 2

Calls == 1..MaxCalls

-----------------------------------------------------------------------------
(* JavaScript values *)

Undefined == [t |-> "undefined", s |-> "", n |-> 0]
Null == [t |-> "null", s |-> "", n |-> 0]
Str(x) == [t |-> "string", s |-> x, n |-> 0]
Num(k) == [t |-> "number", s |-> "", n |-> k]
Bool(b) == [t |-> "boolean", s |-> IF b THEN "true" ELSE "false", n |-> 0]
\* new Error(msg): an object whose .message is msg
Err(msg) == [t |-> "Error", s |-> msg, n |-> 0]
\* a parsed JSON object, identified by its text; it has no .message
Obj(text) == [t |-> "object", s |-> text, n |-> 0]

\* ToBoolean
Truthy(v) ==
    CASE v.t \in {"undefined", "null"} -> FALSE
      [] v.t = "string" -> v.s # ""
      [] v.t = "number" -> v.n # 0
      [] v.t = "boolean" -> v.s = "true"
      [] OTHER -> TRUE

\* ToString, as template literals and URLSearchParams.append apply it
ToJSString(v) ==
    CASE v.t = "string" -> v.s
      [] v.t = "number" -> ToString(v.n)
      [] v.t = "boolean" -> v.s
      [] v.t = "null" -> "null"
      [] v.t = "undefined" -> "undefined"
      [] v.t = "Error" -> "Error: " \o v.s
      [] OTHER -> "[object Object]"

\* error.message: the property read of handleError (defined for non-nullish values)
GetMessage(v) == IF v.t \in {"Error", "TypeError"} THEN Str(v.s) ELSE Undefined

Entry(k, v) == [k |-> k, v |-> v]
NoOptions == [present |-> FALSE, entries |-> <<>>]
Options(es) == [present |-> TRUE, entries |-> es]

HasKey(es, k) == \E i \in 1..Len(es) : es[i].k = k
Lookup(es, k) == es[CHOOSE i \in 1..Len(es) : es[i].k = k].v

-----------------------------------------------------------------------------
(* Inputs *)

ApiKeyArgs == {Undefined, Str(""), Str("test-api-key"), Str("k2")}

ScanUrls == {"https://example.com"}

ScanOptionsSet ==
    { NoOptions,
      Options(<<Entry("visibility", Undefined), Entry("customagent", Str("a\"b\\c")),
                Entry("overrideSafety", Bool(TRUE))>>),
      Options(<<Entry("country", Str("de")), Entry("url", Str("https://other.example"))>>) }

ScanIds == {"scan-id"}

SearchTerms == {"", "a b&c=d"}

SearchOptionsSet ==
    { NoOptions,
      Options(<<Entry("size", Undefined), Entry("search_after", Str("1,x y"))>>),
      Options(<<Entry("size", Num(10)), Entry("search_after", Str("1,x y"))>>) }

Responses ==
    { [ok |-> TRUE, status |-> 200],
      [ok |-> FALSE, status |-> 404],
      [ok |-> FALSE, status |-> 500] }

\* values a rejected fetch can carry
FetchErrors == {Undefined, Str("boom"), Err("")}

\* values a rejected response.json() can carry
JsonErrors == {Err("Unexpected token < in JSON at position 0")}

JsonBodies == {Obj("{success:true}"), Obj("{results:[]}")}

-----------------------------------------------------------------------------
(* Pure helpers of the client *)

\* the fixed base URL the constructor stores
BaseURL == "https://urlscan.io/api/v1/"

\* variant of the constructor guard that rejects only an absent key
ApiKeyMissingOnlyAbsent(apiKey) == apiKey = Undefined

\* constructor guard: !apiKey || apiKey == ''
ApiKeyMissing(apiKey) == ~Truthy(apiKey) \/ apiKey = Str("")

\* variant of search without its term guard
TermNeverMissing(term) == FALSE

\* search guard: !term
TermMissing(term) == ~Truthy(Str(term))

\* Property assignment on an object: an existing key keeps its position and
\* takes the new value, a new key is appended.
SetProperty(es, k, v) ==
    IF HasKey(es, k)
    THEN [i \in 1..Len(es) |-> IF es[i].k = k THEN Entry(k, v) ELSE es[i]]
    ELSE Append(es, Entry(k, v))

RECURSIVE ObjectSpread(_, _)
\* { ...target, ...source }: the own properties of source copied in order
ObjectSpread(target, source) ==
    IF source = <<>> THEN target
    ELSE ObjectSpread(SetProperty(target, Head(source).k, Head(source).v), Tail(source))

\* const payload = { url, ...options }
ScanPayload(url, options) ==
    ObjectSpread(<<Entry("url", Str(url))>>, options.entries)

RECURSIVE JSONQuote(_)
\* the characters of a JSON string literal: quote and backslash are escaped
JSONQuote(str) ==
    IF str = "" THEN ""
    ELSE (CASE Head(str) = "\"" -> "\\\""
            [] Head(str) = "\\" -> "\\\\"
            [] OTHER -> Head(str)) \o JSONQuote(Tail(str))

\* JSON text of a primitive value
JSONValue(v) ==
    CASE v.t = "string" -> "\"" \o JSONQuote(v.s) \o "\""
      [] v.t = "number" -> ToString(v.n)
      [] v.t = "boolean" -> v.s
      [] OTHER -> "null"

RECURSIVE JSONMembers(_, _)
\* the members of an object, in property order; a property whose value is
\* undefined is left out
JSONMembers(es, first) ==
    IF es = <<>> THEN ""
    ELSE IF Head(es).v.t = "undefined" THEN JSONMembers(Tail(es), first)
    ELSE (IF first THEN "" ELSE ",")
         \o "\"" \o JSONQuote(Head(es).k) \o "\":" \o JSONValue(Head(es).v)
         \o JSONMembers(Tail(es), FALSE)

\* JSON.stringify(payload)
JSONStringify(es) == "{" \o JSONMembers(es, TRUE) \o "}"

\* application/x-www-form-urlencoded serialisation of one character
\* (letters, digits and * - . _ are kept)
FormEncodeChar(c) ==
    CASE c = " " -> "+"
      [] c = "&" -> "%26"
      [] c = "=" -> "%3D"
      [] c = "," -> "%2C"
      [] c = "+" -> "%2B"
      [] c = "%" -> "%25"
      [] c = "/" -> "%2F"
      [] c = ":" -> "%3A"
      [] c = "?" -> "%3F"
      [] OTHER -> c

RECURSIVE FormEncode(_)
FormEncode(str) ==
    IF str = "" THEN "" ELSE FormEncodeChar(Head(str)) \o FormEncode(Tail(str))

RECURSIVE AppendEvery(_, _)
\* variant of the options loop without the `value !== undefined` test
AppendEvery(params, es) ==
    IF es = <<>> THEN params
    ELSE AppendEvery(Append(params, Entry(Head(es).k, ToJSString(Head(es).v))), Tail(es))

RECURSIVE AppendDefined(_, _)
\* Object.entries(options).forEach(([key, value]) =>
\*     { if (value !== undefined) queryParams.append(key, value) })
AppendDefined(params, es) ==
    IF es = <<>> THEN params
    ELSE AppendDefined(
           IF Head(es).v # Undefined
           THEN Append(params, Entry(Head(es).k, ToJSString(Head(es).v)))
           ELSE params,
           Tail(es))

\* the list of pairs held by queryParams when fetch is called
SearchParams(term, options) ==
    IF options.present
    THEN AppendDefined(<<Entry("q", term)>>, options.entries)
    ELSE <<Entry("q", term)>>

RECURSIVE ParamsToString(_, _)
\* URLSearchParams.prototype.toString
ParamsToString(params, first) ==
    IF params = <<>> THEN ""
    ELSE (IF first THEN "" ELSE "&")
         \o FormEncode(Head(params).k) \o "=" \o FormEncode(Head(params).v)
         \o ParamsToString(Tail(params), FALSE)

\* variant of the thrown message that leaves the status out
HttpErrorMessageNoStatus(status) == "HTTP error!"

\* `HTTP error! status: ${response.status}`
HttpErrorMessage(status) == "HTTP error! status: " \o ToString(status)

\* The fetch call of scan
ScanRequest(cl, url, options) ==
    [ method |-> "POST",
      url |-> cl.baseURL \o "scan",
      headers |-> <<Entry("API-Key", cl.apiKey), Entry("Content-Type", "application/json")>>,
      body |-> JSONStringify(ScanPayload(url, options)) ]

\* variant of getScan's fetch call that sends the key under another header
GetScanRequestBearer(cl, id) ==
    [ method |-> "GET",
      url |-> cl.baseURL \o "result/" \o id,
      headers |-> <<Entry("Authorization", "Bearer " \o cl.apiKey)>>,
      body |-> "" ]

\* The fetch call of getScan
GetScanRequest(cl, id) ==
    [ method |-> "GET",
      url |-> cl.baseURL \o "result/" \o id,
      headers |-> <<Entry("API-Key", cl.apiKey)>>,
      body |-> "" ]

\* The fetch call of search
SearchRequest(cl, term, options) ==
    [ method |-> "GET",
      url |-> cl.baseURL \o "search?" \o ParamsToString(SearchParams(term, options), TRUE),
      headers |-> <<Entry("API-Key", cl.apiKey)>>,
      body |-> "" ]

\* handleError(error): console.error('Error:', error.message || error).
\* Reading .message of undefined or null throws a TypeError before anything
\* is written.
handleError(error) ==
    IF error.t \in {"undefined", "null"}
    THEN [ threw |-> TRUE,
           thrown |-> [t |-> "TypeError",
                       s |-> "Cannot read properties of " \o error.t \o " (reading 'message')",
                       n |-> 0],
           writes |-> <<>> ]
    ELSE [ threw |-> FALSE,
           thrown |-> Undefined,
           writes |-> << <<Str("Error:"),
                           IF Truthy(GetMessage(error)) THEN GetMessage(error) ELSE error>> >> ]

-----------------------------------------------------------------------------
(* State *)

\* client: the instance's private fields, once a construction has succeeded
NoClient == [constructed |-> FALSE, apiKey |-> "", baseURL |-> ""]

\* ctor: the argument and the outcome of the latest `new UrlscanClient(apiKey)`
NoCtor == [called |-> FALSE, arg |-> Undefined, threw |-> FALSE, thrown |-> Undefined]

\* calls[c]: one invocation of scan / getScan / search: its arguments, where
\* the async function stands, the value its promise settled with, and the
\* value its catch block received
IdleCall ==
    [ op |-> "none", arg |-> "", options |-> NoOptions, pc |-> "idle",
      value |-> Undefined, caught |-> FALSE, error |-> Undefined ]

\* transport[c]: what fetch and response.json() answered to call c
NoTransport ==
    [ fetch |-> "none", ok |-> FALSE, status |-> 0, json |-> "none",
      body |-> Undefined, error |-> Undefined ]

Init ==
    /\ client = NoClient
    /\ ctor = NoCtor
    /\ calls = [c \in Calls |-> IdleCall]
    /\ transport = [c \in Calls |-> NoTransport]
    /\ requests = [c \in Calls |-> <<>>]
    /\ console = [c \in Calls |-> <<>>]

-----------------------------------------------------------------------------
(* Operations *)

\* constructor(apiKey)
Construct(apiKey) ==
    /\ ~client.constructed
    /\ IF ApiKeyMissing(apiKey)
       THEN /\ ctor' = [called |-> TRUE, arg |-> apiKey, threw |-> TRUE,
                        thrown |-> Err("API key is required.")]
            /\ UNCHANGED client
       ELSE /\ ctor' = [called |-> TRUE, arg |-> apiKey, threw |-> FALSE,
                        thrown |-> Undefined]
            /\ client' = [constructed |-> TRUE, apiKey |-> apiKey.s, baseURL |-> BaseURL]
    /\ UNCHANGED <<calls, transport, requests, console>>

\* await fetch(...): the request leaves and the async function suspends
Fetch(c, op, arg, options, request) ==
    /\ calls' = [calls EXCEPT ![c] = [IdleCall EXCEPT !.op = op, !.arg = arg,
                                         !.options = options, !.pc = "awaitFetch"]]
    /\ requests' = [requests EXCEPT ![c] = Append(@, request)]
    /\ transport' = [transport EXCEPT ![c].fetch = "pending"]
    /\ UNCHANGED <<client, ctor, console>>

\* catch (error) { this.handleError(error); }: the promise resolves with no
\* value, unless handleError itself throws, which rejects it
Catch(c, error) ==
    LET h == handleError(error) IN
    /\ calls' = [calls EXCEPT ![c].pc = IF h.threw THEN "rejected" ELSE "resolved",
                              ![c].value = IF h.threw THEN h.thrown ELSE Undefined,
                              ![c].caught = TRUE,
                              ![c].error = error]
    /\ console' = [console EXCEPT ![c] = @ \o h.writes]

\* scan(url, options), up to its first await
Scan(c, url, options) ==
    /\ client.constructed
    /\ calls[c].pc = "idle"
    /\ Fetch(c, "scan", url, options, ScanRequest(client, url, options))

\* getScan(id), up to its first await
GetScan(c, id) ==
    /\ client.constructed
    /\ calls[c].pc = "idle"
    /\ Fetch(c, "getScan", id, NoOptions, GetScanRequest(client, id))

\* search(term, options), up to its first await; the term check is outside
\* the try block, so its error rejects the returned promise
Search(c, term, options) ==
    /\ client.constructed
    /\ calls[c].pc = "idle"
    /\ IF TermMissing(term)
       THEN /\ calls' = [calls EXCEPT ![c] = [IdleCall EXCEPT !.op = "search", !.arg = term,
                                                 !.options = options, !.pc = "rejected",
                                                 !.value = Err("Search term is required.")]]
            /\ UNCHANGED <<client, ctor, transport, requests, console>>
       ELSE Fetch(c, "search", term, options, SearchRequest(client, term, options))

\* fetch resolves with a response: if (!response.ok) throw new Error(...),
\* else await response.json()
FetchResolves(c, response) ==
    /\ calls[c].pc = "awaitFetch"
    /\ transport' = [transport EXCEPT ![c].fetch = "resolved", ![c].ok = response.ok,
                                      ![c].status = response.status,
                                      ![c].json = IF response.ok THEN "pending" ELSE "none"]
    /\ IF ~response.ok
       THEN Catch(c, Err(HttpErrorMessage(response.status)))
       ELSE /\ calls' = [calls EXCEPT ![c].pc = "awaitJson"]
            /\ UNCHANGED console
    /\ UNCHANGED <<client, ctor, requests>>

\* variant of the network-failure path that issues the request once more
\* before giving up
FetchRejectsRetries(c, error) ==
    /\ calls[c].pc = "awaitFetch"
    /\ IF Len(requests[c]) < 2
       THEN /\ requests' = [requests EXCEPT ![c] = Append(@, @[1])]
            /\ UNCHANGED <<calls, transport, console>>
       ELSE /\ transport' = [transport EXCEPT ![c].fetch = "rejected", ![c].error = error]
            /\ Catch(c, error)
            /\ UNCHANGED requests
    /\ UNCHANGED <<client, ctor>>

\* fetch rejects (network failure)
FetchRejects(c, error) ==
    /\ calls[c].pc = "awaitFetch"
    /\ transport' = [transport EXCEPT ![c].fetch = "rejected", ![c].error = error]
    /\ Catch(c, error)
    /\ UNCHANGED <<client, ctor, requests>>

\* variant of the success path that awaits the body but does not return it
JsonResolvesNoReturn(c, body) ==
    /\ calls[c].pc = "awaitJson"
    /\ transport' = [transport EXCEPT ![c].json = "resolved", ![c].body = body]
    /\ calls' = [calls EXCEPT ![c].pc = "resolved", ![c].value = Undefined]
    /\ UNCHANGED <<client, ctor, requests, console>>

\* response.json() resolves: return await response.json()
JsonResolves(c, body) ==
    /\ calls[c].pc = "awaitJson"
    /\ transport' = [transport EXCEPT ![c].json = "resolved", ![c].body = body]
    /\ calls' = [calls EXCEPT ![c].pc = "resolved", ![c].value = body]
    /\ UNCHANGED <<client, ctor, requests, console>>

\* response.json() rejects (the body is not JSON)
JsonRejects(c, error) ==
    /\ calls[c].pc = "awaitJson"
    /\ transport' = [transport EXCEPT ![c].json = "rejected", ![c].error = error]
    /\ Catch(c, error)
    /\ UNCHANGED <<client, ctor, requests>>

Next ==
    \/ \E k \in ApiKeyArgs : Construct(k)
    \/ \E c \in Calls, u \in ScanUrls, o \in ScanOptionsSet : Scan(c, u, o)
    \/ \E c \in Calls, i \in ScanIds : GetScan(c, i)
    \/ \E c \in Calls, t \in SearchTerms, o \in SearchOptionsSet : Search(c, t, o)
    \/ \E c \in Calls, r \in Responses : FetchResolves(c, r)
    \/ \E c \in Calls, e \in FetchErrors : FetchRejects(c, e)
    \/ \E c \in Calls, b \in JsonBodies : JsonResolves(c, b)
    \/ \E c \in Calls, e \in JsonErrors : JsonRejects(c, e)

Spec == Init /\ [][Next]_vars

-----------------------------------------------------------------------------
(* Readers used to state the properties: what the receiving side sees *)

Started(c) == calls[c].pc # "idle"
Completed(c) == calls[c].pc \in {"resolved", "rejected"}
\* a call that passed its precondition check (every scan and getScan, and a
\* search whose term is not empty)
Admitted(c) == Started(c) /\ ~(calls[c].op = "search" /\ calls[c].arg = "")

IsPrefix(p, str) == Len(p) <= Len(str) /\ SubSeq(str, 1, Len(p)) = p
Drop(str, k) == SubSeq(str, k + 1, Len(str))

\* obj[k] as JavaScript reads it: undefined when the object has no such key
Field(es, k) == IF HasKey(es, k) THEN Lookup(es, k) ELSE Undefined

RECURSIVE ReadJSONString(_, _)
\* str stands right after an opening quote: the string's characters, and
\* what follows its closing quote
ReadJSONString(str, acc) ==
    IF Head(str) = "\"" THEN [val |-> acc, rest |-> Tail(str)]
    ELSE IF Head(str) = "\\"
         THEN ReadJSONString(Tail(Tail(str)), acc \o Head(Tail(str)))
         ELSE ReadJSONString(Tail(str), acc \o Head(str))

ReadJSONValue(str) ==
    IF Head(str) = "\""
    THEN LET r == ReadJSONString(Tail(str), "") IN [val |-> Str(r.val), rest |-> r.rest]
    ELSE IF IsPrefix("true", str) THEN [val |-> Bool(TRUE), rest |-> Drop(str, 4)]
    ELSE IF IsPrefix("false", str) THEN [val |-> Bool(FALSE), rest |-> Drop(str, 5)]
    ELSE [val |-> Null, rest |-> Drop(str, 4)]

RECURSIVE ReadJSONMembers(_, _)
\* str stands at a member's opening quote or at the closing brace
ReadJSONMembers(str, acc) ==
    IF Head(str) = "}" THEN acc
    ELSE LET k == ReadJSONString(Tail(str), "")
             v == ReadJSONValue(Tail(k.rest))
             obj == SetProperty(acc, k.val, v.val)
         IN IF Head(v.rest) = "," THEN ReadJSONMembers(Tail(v.rest), obj) ELSE obj

\* JSON.parse of an object of strings and booleans
JSONParse(text) == ReadJSONMembers(Tail(text), <<>>)

\* the character a percent escape stands for
FormDecodeEscape(esc) ==
    CASE esc = "%26" -> "&"
      [] esc = "%3D" -> "="
      [] esc = "%2C" -> ","
      [] esc = "%2B" -> "+"
      [] esc = "%25" -> "%"
      [] esc = "%2F" -> "/"
      [] esc = "%3A" -> ":"
      [] esc = "%3F" -> "?"
      [] OTHER -> "?"

RECURSIVE FormDecode(_)
FormDecode(str) ==
    IF str = "" THEN ""
    ELSE IF Head(str) = "+" THEN " " \o FormDecode(Tail(str))
    ELSE IF Head(str) = "%" /\ Len(str) >= 3
         THEN FormDecodeEscape(SubSeq(str, 1, 3)) \o FormDecode(Drop(str, 3))
         ELSE Head(str) \o FormDecode(Tail(str))

RECURSIVE SplitAt(_, _, _)
\* the pieces of str between occurrences of the separator
SplitAt(str, sep, cur) ==
    IF str = "" THEN <<cur>>
    ELSE IF Head(str) = sep THEN <<cur>> \o SplitAt(Tail(str), sep, "")
    ELSE SplitAt(Tail(str), sep, cur \o Head(str))

RECURSIVE UpTo(_, _)
UpTo(str, sep) ==
    IF str = "" \/ Head(str) = sep THEN "" ELSE Head(str) \o UpTo(Tail(str), sep)

\* name=value, split at the first "=" and decoded
ParsePair(piece) ==
    LET name == UpTo(piece, "=")
    IN Entry(FormDecode(name),
             IF Len(name) = Len(piece) THEN "" ELSE FormDecode(Drop(piece, Len(name) + 1)))

\* the pairs a server reads from a query string
ParseQuery(query) ==
    LET pieces == SelectSeq(SplitAt(query, "&", ""), LAMBDA x : x # "")
    IN [i \in 1..Len(pieces) |-> ParsePair(pieces[i])]

\* the part of a URL after its first "?"
QueryOf(url) == Drop(url, Len(UpTo(url, "?")) + 1)

HeaderValues(req, name) ==
    {req.headers[i].v : i \in {j \in 1..Len(req.headers) : req.headers[j].k = name}}

-----------------------------------------------------------------------------
(* Properties *)

\* the transport failed call c: a non-ok response, a rejected fetch, or a
\* rejected response.json()
TransportFailed(c) ==
    \/ transport[c].fetch = "resolved" /\ ~transport[c].ok
    \/ transport[c].fetch = "rejected"
    \/ transport[c].json = "rejected"

\* the text console.error receives for a non-ok response, per status
ExpectedHttpLog(status) ==
    CASE status = 404 -> "HTTP error! status: 404"
      [] status = 500 -> "HTTP error! status: 500"
      [] OTHER -> "HTTP error! status: (other)"

\* C1: for scan, getScan and search (non-empty term), a response with
\* ok=false and status N makes the call resolve with no value (no rejection)
\* and console.error is called exactly once for that call, with 'Error:' and
\* 'HTTP error! status: N'.
C1_NonOkIsLoggedAndSwallowed ==
    \A c \in Calls :
        (transport[c].fetch = "resolved" /\ ~transport[c].ok) =>
            /\ calls[c].pc = "resolved"
            /\ calls[c].value = Undefined
            /\ console[c] = << <<Str("Error:"), Str(ExpectedHttpLog(transport[c].status))>> >>

C1_Witness ==
    \E c1, c2 \in Calls :
        /\ calls[c1].op = "scan" /\ transport[c1].fetch = "resolved"
        /\ transport[c1].status = 500 /\ calls[c1].pc = "resolved"
        /\ calls[c2].op = "search" /\ transport[c2].fetch = "resolved"
        /\ transport[c2].status = 404 /\ calls[c2].pc = "resolved"

\* C2: no call of scan, getScan or search (non-empty term) ever rejects:
\* whatever failure the transport produces (non-ok status, a network failure
\* carrying any value, a JSON parse failure), the call invokes the error
\* handler and resolves with no value.
C2_TransportFailureNeverRejects ==
    \A c \in Calls :
        /\ (Admitted(c) /\ TransportFailed(c)) =>
              /\ calls[c].caught
              /\ calls[c].pc = "resolved"
              /\ calls[c].value = Undefined
        /\ calls[c].pc = "rejected" => ~Admitted(c)

\* C3: constructing with an empty or absent API key throws exactly
\* 'API key is required.' and yields no client; constructing with a non-empty
\* key succeeds and stores that key and the base URL
\* 'https://urlscan.io/api/v1/'.
C3_ConstructorContract ==
    ctor.called =>
        IF ctor.arg = Undefined \/ ctor.arg = Str("")
        THEN /\ ctor.threw
             /\ ctor.thrown = Err("API key is required.")
             /\ ~client.constructed
        ELSE /\ ~ctor.threw
             /\ client = [constructed |-> TRUE, apiKey |-> ctor.arg.s,
                          baseURL |-> "https://urlscan.io/api/v1/"]

C3_Witness == ctor.called /\ ctor.arg = Str("") /\ ctor.threw /\ ~client.constructed

\* C4: search with an empty term fails to the caller with exactly 'Search term
\* is required.', issues no request, and does not go through handleError
\* (nothing is logged).
C4_EmptyTermRejectsWithoutRequest ==
    \A c \in Calls :
        (calls[c].op = "search" /\ calls[c].arg = "") =>
            /\ calls[c].pc = "rejected"
            /\ calls[c].value = Err("Search term is required.")
            /\ requests[c] = <<>>
            /\ transport[c].fetch = "none"
            /\ ~calls[c].caught
            /\ console[c] = <<>>

C4_Witness ==
    \E c \in Calls :
        /\ calls[c].op = "search" /\ calls[c].arg = "" /\ calls[c].pc = "rejected"
        /\ calls[c].options.present

\* C5: when the response is ok and its body parses to B, the call resolves to
\* exactly B and nothing is written to the console for that call.
C5_OkBodyReturnedVerbatim ==
    \A c \in Calls :
        (transport[c].fetch = "resolved" /\ transport[c].ok /\ transport[c].json = "resolved") =>
            /\ calls[c].pc = "resolved"
            /\ calls[c].value = transport[c].body
            /\ console[c] = <<>>

C5_Witness ==
    \E c1, c2 \in Calls :
        /\ calls[c1].op = "getScan" /\ calls[c1].value = Obj("{success:true}")
        /\ calls[c2].op = "search" /\ calls[c2].value = Obj("{results:[]}")

\* C6: once constructed, the client's apiKey and baseURL never change, and
\* every request of every call, under any interleaving of calls, carries the
\* header API-Key equal to the key given at construction and a URL beginning
\* with 'https://urlscan.io/api/v1/'.
C6_FieldsFixedRequestsCarryKey ==
    /\ [][client.constructed => client' = client]_vars
    /\ [](\A c \in Calls : \A i \in 1..Len(requests[c]) :
            /\ HeaderValues(requests[c][i], "API-Key") = {ctor.arg.s}
            /\ IsPrefix("https://urlscan.io/api/v1/", requests[c][i].url))

C6_Witness ==
    \E c1, c2 \in Calls :
        /\ client.apiKey = "k2"
        /\ calls[c1].op = "getScan" /\ calls[c1].pc = "awaitFetch"
        /\ calls[c2].op = "scan" /\ calls[c2].pc = "resolved" /\ calls[c2].caught

\* C7: every call of scan, getScan or search (non-empty term) issues exactly
\* one request, whatever the outcome, and does not complete before fetch has
\* answered; the request is POST baseURL+'scan', GET baseURL+'result/'+id, or
\* GET baseURL+'search?'+query.
C7_ExactlyOneRequest ==
    \A c \in Calls :
        Admitted(c) =>
            /\ Len(requests[c]) = 1
            /\ Completed(c) => transport[c].fetch \in {"resolved", "rejected"}
            /\ LET req == requests[c][1] IN
               CASE calls[c].op = "scan" ->
                      req.method = "POST" /\ req.url = "https://urlscan.io/api/v1/scan"
                 [] calls[c].op = "getScan" ->
                      /\ req.method = "GET"
                      /\ req.url = "https://urlscan.io/api/v1/result/" \o calls[c].arg
                 [] OTHER ->
                      /\ req.method = "GET"
                      /\ IsPrefix("https://urlscan.io/api/v1/search?", req.url)

C7_Witness ==
    \E c1, c2 \in Calls :
        /\ calls[c1].op = "getScan" /\ transport[c1].fetch = "rejected" /\ Completed(c1)
        /\ Len(requests[c1]) = 1
        /\ calls[c2].op = "search" /\ transport[c2].json = "resolved" /\ Completed(c2)
        /\ Len(requests[c2]) = 1

\* C8: the JSON body scan sends has its url field equal to the url argument
\* and holds every field of options with its given value (a field given as
\* undefined reads back as undefined); without options it holds url alone.
C8_BodyIsUrlPlusOptions ==
    \A c \in Calls :
        (calls[c].op = "scan" /\ Len(requests[c]) = 1) =>
            LET body == JSONParse(requests[c][1].body)
                given == calls[c].options.entries
            IN /\ Field(body, "url") = Str(calls[c].arg)
               /\ \A i \in 1..Len(given) : Field(body, given[i].k) = given[i].v
               /\ ~calls[c].options.present => body = <<Entry("url", Str(calls[c].arg))>>

\* C9: for a non-empty term the query string read back is the pair q=<term>
\* followed by one pair per key of options whose value is not undefined, in
\* the order of options; keys whose value is undefined give no pair, and
\* without options the query is the q pair alone.
C9_QueryIsTermThenDefinedOptions ==
    \A c \in Calls :
        (calls[c].op = "search" /\ calls[c].arg # "" /\ Len(requests[c]) = 1) =>
            LET query == QueryOf(requests[c][1].url)
                pairs == ParseQuery(query)
                defined == SelectSeq(calls[c].options.entries, LAMBDA e : e.v # Undefined)
            IN /\ IsPrefix("q=", query)
               /\ Len(pairs) = 1 + Len(defined)
               /\ pairs[1] = Entry("q", calls[c].arg)
               /\ \A i \in 1..Len(defined) :
                     pairs[i + 1] = Entry(defined[i].k, ToJSString(defined[i].v))
               /\ ~calls[c].options.present => pairs = <<Entry("q", calls[c].arg)>>

C9_Witness ==
    \E c1, c2 \in Calls :
        /\ calls[c1].op = "search" /\ calls[c1].arg = "a b&c=d"
        /\ calls[c1].options =
              Options(<<Entry("size", Undefined), Entry("search_after", Str("1,x y"))>>)
        /\ requests[c1] # <<>>
        /\ requests[c1][1].url = "https://urlscan.io/api/v1/search?q=a+b%26c%3Dd&search_after=1%2Cx+y"
        /\ calls[c2].op = "search" /\ ~calls[c2].options.present /\ requests[c2] # <<>>

\* the caught value carries a message (it is an Error object)
CarriesMessage(error) == error.t \in {"Error", "TypeError"}

\* C10: for any caught value, handleError writes 'Error:' followed by the
\* value's message when it carries one, whatever the message is, and by the
\* raw value otherwise; it has no other effect (it returns, so the call
\* resolves with no value).
C10_HandlerWritesMessageOrValue ==
    \A c \in Calls :
        calls[c].caught =>
            /\ console[c] = << <<Str("Error:"),
                                IF CarriesMessage(calls[c].error)
                                THEN Str(calls[c].error.s) ELSE calls[c].error>> >>
            /\ calls[c].pc = "resolved"
            /\ calls[c].value = Undefined

====
